---------------------------- MODULE Spec2Model ----------------------------
(***************************************************************************)
(* Smart Healthcare Operations Optimizer (src/app.py).                     *)
(*                                                                         *)
(* The program is one Streamlit script.  The widget values are the only    *)
(* state that outlives an evaluation; every change of a widget runs the    *)
(* script again from its first line in a fresh namespace.  The model has   *)
(* the widget values, the namespace `ns` of the running script, the page   *)
(* it has rendered so far and the script's position `pc`.                  *)
(*                                                                         *)
(* Python floats are modelled by the exact rational they approximate,      *)
(* [num, den, ulp]: num/den in lowest terms, and ulp in {-1, 0, 1} the     *)
(* side on which the binary64 result lies when the exact value sits on a   *)
(* threshold the script compares it with (0 everywhere else, where the     *)
(* rounding error of about 1e-14 cannot change a comparison).              *)
(***************************************************************************)
EXTENDS Integers, Sequences, FiniteSets, TLC

VARIABLES
    num_doctors, num_patients_per_hour, consult_time, num_beds, staff_shifts,
    investment, annual_savings, years, defects,
    ns, page, pc, np_log10_calls, bar_updates, reruns, memo

widgets == <<num_doctors, num_patients_per_hour, consult_time, num_beds,
             staff_shifts, investment, annual_savings, years, defects>>
run == <<ns, page, pc, np_log10_calls, bar_updates>>
vars == <<widgets, run, reruns, memo>>

---------------------------------------------------------------------------
(* Widget declarations: st.sidebar.slider / st.number_input / st.slider
   (label, min_value, max_value, value).  The widget returns a value between
   its min_value and max_value. *)

NumDoctorsSliderFromZero == [min |-> 0, max |-> 20, value |-> 5]
NumDoctorsSlider == [min |-> 1, max |-> 20, value |-> 5]
PatientsPerHourSlider == [min |-> 10, max |-> 100, value |-> 30]
ConsultTimeSlider == [min |-> 5, max |-> 30, value |-> 10]
NumBedsSlider == [min |-> 5, max |-> 100, value |-> 20]
StaffShiftsSlider == [min |-> 1, max |-> 5, value |-> 3]
InvestmentInput == [min |-> 10000, max |-> 10000000, value |-> 500000]
AnnualSavingsInput == [min |-> 1000, max |-> 5000000, value |-> 100000]
YearsSlider == [min |-> 1, max |-> 10, value |-> 3]
DefectsInput == [min |-> 0, max |-> 1000, value |-> 50]

\* Every value the widget can return
Values(w) == w.min .. w.max

InRange(w, v) == w.min <= v /\ v <= w.max

---------------------------------------------------------------------------
(* Float arithmetic *)

Abs(n) == IF n < 0 THEN -n ELSE n

RECURSIVE GCD(_, _)
GCD(a, b) == IF b = 0 THEN a ELSE GCD(b, a % b)

\* The float num/den (den > 0), in lowest terms.
Norm(n, d) ==
    LET g == GCD(Abs(n), d)
    IN  [num |-> n \div g, den |-> d \div g, ulp |-> 0]

\* int -> float
R(n) == [num |-> n, den |-> 1, ulp |-> 0]

\* a / b on ints (true division), b > 0
TrueDiv(a, b) == Norm(a, b)

\* x * k and x / k, x a float and k a positive int
Mul(x, k) ==
    LET g == GCD(k, x.den)
    IN  Norm(x.num * (k \div g), x.den \div g)

DivBy(x, k) ==
    LET g == GCD(Abs(x.num), k)
    IN  IF x.num = 0 THEN R(0) ELSE Norm(x.num \div g, x.den * (k \div g))

\* x - k
Sub(x, k) == Norm(x.num - k * x.den, x.den)

\* x < k, x > k, x = k for a float x and an int k
Lt(x, k) == x.num < k * x.den \/ (x.num = k * x.den /\ x.ulp < 0)
Gt(x, k) == x.num > k * x.den \/ (x.num = k * x.den /\ x.ulp > 0)
Eq(x, k) == x.num = k * x.den /\ x.ulp = 0
Geq(x, k) == ~Lt(x, k)
Leq(x, k) == ~Gt(x, k)

\* Python's min(k, x) and max(k, x) with the int first: the first argument
\* stays unless the second is strictly smaller (larger).
MinPy(k, x) == IF Lt(x, k) THEN x ELSE R(k)
MaxPy(k, x) == IF Gt(x, k) THEN x ELSE R(k)

---------------------------------------------------------------------------
(* The script's namespace and page *)

\* name = value
Bind(env, name, value) == (name :> value) @@ env

EmptyNs == << >>

El(kind, text) == [kind |-> kind, text |-> text]
Metric(label, value) == [kind |-> "metric", text |-> label, value |-> value]

---------------------------------------------------------------------------
(* Tab 1: core calculations (lines 25-29) *)

\* The side of the exact value on which binary64 leaves
\* (patients_per_doctor * consult_time / 60) * 100 where the exact value is 90
\* or 100: 18/7*21, 27/13*26 and 54/13*13 give 90.00000000000001, and
\* 30/11*22, 60/11*11, 30/13*26 and 60/13*13 give 99.99999999999999.
Binary64Side(ppd, c) ==
    IF <<ppd.num, ppd.den, c>> \in {<<18, 7, 21>>, <<27, 13, 26>>, <<54, 13, 13>>}
    THEN 1
    ELSE IF <<ppd.num, ppd.den, c>> \in
            {<<30, 11, 22>>, <<60, 11, 11>>, <<30, 13, 26>>, <<60, 13, 13>>}
    THEN -1
    ELSE 0

DoctorUtilizationUncapped(ppd, c) ==
    LET exact == Mul(DivBy(Mul(ppd, c), 60), 100)
    IN  [exact EXCEPT !.ulp = Binary64Side(ppd, c)]

\* min(100, (patients_per_doctor * consult_time / 60) * 100)
DoctorUtilization(ppd, c) == MinPy(100, DoctorUtilizationUncapped(ppd, c))

WaitingTimeUnclamped(ppd, c) == Sub(Mul(ppd, c), 60)

WaitingTimeOver50(ppd, c) == MaxPy(0, Sub(Mul(ppd, c), 50))

\* max(0, (patients_per_doctor * consult_time) - 60); the product in binary64
\* is on the same side of 60 as the exact product for every slider setting
\* (59.99999999999999 where the exact product is 60 at the four settings
\* above, which max(0, .) turns into 0 as well).
WaitingTime(ppd, c) == MaxPy(0, WaitingTimeUnclamped(ppd, c))

BedUtilizationUncapped(p, b) == Mul(TrueDiv(p, b), 100)

\* min(100, (num_patients_per_hour / num_beds) * 100)
BedUtilization(p, b) == MinPy(100, BedUtilizationUncapped(p, b))

\* A division by zero raises ZeroDivisionError and ends the run at that line
\* with the names bound so far.
CoreCalculations ==
    /\ pc = "core"
    /\ IF num_doctors = 0
       THEN /\ pc' = "ZeroDivisionError"
            /\ ns' = ns
       ELSE LET ppd == TrueDiv(num_patients_per_hour, num_doctors)
                n1 == Bind(ns, "patients_per_doctor", ppd)
                n2 == Bind(n1, "doctor_utilization",
                           DoctorUtilization(ppd, consult_time))
                n3 == Bind(n2, "waiting_time", WaitingTime(ppd, consult_time))
            IN  IF num_beds = 0
                THEN /\ pc' = "ZeroDivisionError"
                     /\ ns' = n3
                ELSE LET n4 == Bind(n3, "bed_utilization",
                                    BedUtilization(num_patients_per_hour, num_beds))
                     IN  /\ ns' = Bind(n4, "throughput",
                                       num_patients_per_hour * staff_shifts)
                         /\ pc' = "recommend"
    /\ UNCHANGED <<widgets, page, np_log10_calls, bar_updates, reruns, memo>>

(* Recommendations (lines 31-40) *)

DoctorOver == "Doctors are overutilized. Consider hiring more doctors or reducing consultation time."
DoctorOptimal == "Doctor utilization is optimal."
BedOver == "High bed occupancy. Risk of patient overflow!"
BedHealthy == "Bed availability is healthy."

DoctorMsg(u) == IF Gt(u, 90) THEN DoctorOver ELSE DoctorOptimal
BedMsg(u) == IF Gt(u, 85) THEN BedOver ELSE BedHealthy

Recommendations ==
    /\ pc = "recommend"
    /\ ns' = Bind(Bind(ns, "doctor_msg", DoctorMsg(ns.doctor_utilization)),
                  "bed_msg", BedMsg(ns.bed_utilization))
    /\ pc' = "kpi"
    /\ UNCHANGED <<widgets, page, np_log10_calls, bar_updates, reruns, memo>>

(* Display KPIs and the chart (lines 42-57) *)

DisplayKPIs ==
    /\ pc = "kpi"
    /\ page' = page \o
         << El("subheader", "Key Performance Indicators"),
            Metric("Doctor Utilization", ns.doctor_utilization),
            Metric("Avg Waiting Time", ns.waiting_time),
            Metric("Bed Utilization", ns.bed_utilization),
            Metric("Throughput (patients/shift)", ns.throughput),
            El("write", "---"),
            [kind |-> "plotly_chart", text |-> "Resource Utilization (%)",
             value |-> <<ns.doctor_utilization, ns.bed_utilization>>] >>
    /\ pc' = "simulation"
    /\ UNCHANGED <<widgets, ns, np_log10_calls, bar_updates, reruns, memo>>

(* Real-time simulation (lines 59-67): my_bar is the progress element, and
   bar_updates the values my_bar.progress has been called with, in order.
   time.sleep only delays. *)

RangeStop == 100

SimulationStart ==
    /\ pc = "simulation"
    /\ page' = page \o << El("subheader", "Real-Time Patient Flow Simulation"),
                          El("progress", "my_bar") >>
    /\ ns' = Bind(Bind(ns, "progress_text", "Simulating patient inflow..."),
                  "my_bar", [value |-> 0, text |-> "Simulating patient inflow..."])
    /\ pc' = "loop"
    /\ UNCHANGED <<widgets, np_log10_calls, bar_updates, reruns, memo>>

\* The next value of range(100): 0 at first, then one past percent_complete.
RangeNext(env) ==
    IF "percent_complete" \in DOMAIN env THEN env.percent_complete + 1 ELSE 0

ProgressValueSame(i) == i
ProgressValue(i) == i + 1

SimulationStep ==
    /\ pc = "loop"
    /\ RangeNext(ns) < RangeStop
    /\ LET i == RangeNext(ns)
       IN  /\ ns' = Bind(Bind(ns, "percent_complete", i),
                         "my_bar", [value |-> ProgressValue(i),
                                    text |-> <<"Simulating", ProgressValue(i), "%">>])
           /\ bar_updates' = Append(bar_updates, ProgressValue(i))
    /\ UNCHANGED <<widgets, page, pc, np_log10_calls, reruns, memo>>

SimulationComplete ==
    /\ pc = "loop"
    /\ RangeNext(ns) >= RangeStop
    /\ page' = Append(page, El("success", "Simulation Complete"))
    /\ pc' = "insights"
    /\ UNCHANGED <<widgets, ns, np_log10_calls, bar_updates, reruns, memo>>

(* Insights (lines 69-75) *)

Insights ==
    /\ pc = "insights"
    /\ page' = page \o
         << El("subheader", "Insights & Optimization Suggestions"),
            El("write", ns.doctor_msg),
            El("write", ns.bed_msg),
            El("write", "Improve scheduling efficiency using rotation between shifts."),
            El("write", "Apply Lean or Six Sigma principles to reduce waiting time."),
            El("write", "Evaluate ROI before capacity expansion.") >>
    /\ pc' = "roi"
    /\ UNCHANGED <<widgets, ns, np_log10_calls, bar_updates, reruns, memo>>

---------------------------------------------------------------------------
(* Tab 2: ROI calculator (lines 80-98) *)

\* ((annual_savings * years - investment) / investment) * 100
Roi(inv, savings, yrs) == Mul(TrueDiv(savings * yrs - inv, inv), 100)

RoiExcellent == El("success", "Excellent ROI - expansion or new process design is financially viable.")
RoiModerate == El("warning", "Moderate ROI - consider fine-tuning your process.")
RoiNegative == El("error", "Negative ROI - not financially feasible.")

\* if roi > 50 / elif roi > 0 / else: the elements rendered, in order
RoiElementsNoElif(roi) ==
    (IF Gt(roi, 50) THEN <<RoiExcellent>> ELSE << >>)
    \o (IF Gt(roi, 0) THEN <<RoiModerate>> ELSE <<RoiNegative>>)

RoiElements(roi) ==
    IF Gt(roi, 50) THEN <<RoiExcellent>>
    ELSE IF Gt(roi, 0) THEN <<RoiModerate>>
    ELSE <<RoiNegative>>

RoiCalculator ==
    /\ pc = "roi"
    /\ IF investment = 0
       THEN /\ pc' = "ZeroDivisionError"
            /\ ns' = ns
            /\ page' = page \o
                 << El("header", "Advanced Healthcare Analytics"),
                    El("markdown", "Quantitative Decision Support for Healthcare Systems"),
                    El("subheader", "ROI (Return on Investment) Calculator") >>
       ELSE LET roi == Roi(investment, annual_savings, years)
            IN  /\ ns' = Bind(ns, "roi", roi)
                /\ page' = page \o
                     << El("header", "Advanced Healthcare Analytics"),
                        El("markdown", "Quantitative Decision Support for Healthcare Systems"),
                        El("subheader", "ROI (Return on Investment) Calculator"),
                        Metric("ROI over Time Period", roi) >>
                     \o RoiElements(roi)
                /\ pc' = "sigma"
    /\ UNCHANGED <<widgets, np_log10_calls, bar_updates, reruns, memo>>

(* Tab 2: Six Sigma estimator (lines 100-118) and the closing text (120-131) *)

OpportunitiesPerPatient == 10
PatientsObserved == 1000
Million == 1000000
SigmaBase == 6

\* The literal 3.4
ThreePointFour == [num |-> 17, den |-> 5, ulp |-> 0]

\* x / y on floats, y > 0
DivFloat(x, y) == Norm(x.num * y.den, x.den * y.num)

\* (defects / opportunities) * 1_000_000
Dpmo(d, opportunities) ==
    Mul(TrueDiv(d, opportunities), Million)

\* np.log10 has no rational value: 6 - np.log10(x) is kept as the record
\* [six_minus_log10 |-> x], x exact, and compared through x.  log10_calls is
\* the number of calls of np.log10 the expression makes.
SigmaLevelAlwaysLog(dpmo) ==
    [value |-> [six_minus_log10 |-> DivFloat(dpmo, ThreePointFour)],
     log10_calls |-> 1]

\* 6 - (np.log10(dpmo/3.4) if dpmo > 0 else 0)
SigmaLevel(dpmo) ==
    IF Gt(dpmo, 0)
    THEN [value |-> [six_minus_log10 |-> DivFloat(dpmo, ThreePointFour)],
          log10_calls |-> 1]
    ELSE [value |-> R(SigmaBase), log10_calls |-> 0]

RECURSIVE Pow10(_)
Pow10(m) == IF m = 0 THEN 1 ELSE 10 * Pow10(m - 1)

\* sigma >= k for an int k in 0..6: 6 - log10(x) >= k iff x <= 10^(6-k)
\* (log10(0) is -inf, so that 6 - log10(0) = inf >= k).
SigmaGeq(sigma, k) ==
    IF "six_minus_log10" \in DOMAIN sigma
    THEN sigma.six_minus_log10.num <= Pow10(SigmaBase - k) * sigma.six_minus_log10.den
    ELSE Geq(sigma, k)

SigmaWorldClass == El("success", "Excellent process quality (World-Class).")
SigmaGood == El("info", "Good process, scope for improvement.")
SigmaModerate == El("warning", "Moderate quality - consider Six Sigma interventions.")
SigmaPoor == El("error", "Poor quality - urgent process redesign required.")

SigmaElementsShifted(sigma) ==
    IF SigmaGeq(sigma, 4) THEN <<SigmaWorldClass>>
    ELSE IF SigmaGeq(sigma, 3) THEN <<SigmaGood>>
    ELSE IF SigmaGeq(sigma, 2) THEN <<SigmaModerate>>
    ELSE <<SigmaPoor>>

\* if sigma_level >= 5 / elif >= 4 / elif >= 3 / else
SigmaElements(sigma) ==
    IF SigmaGeq(sigma, 5) THEN <<SigmaWorldClass>>
    ELSE IF SigmaGeq(sigma, 4) THEN <<SigmaGood>>
    ELSE IF SigmaGeq(sigma, 3) THEN <<SigmaModerate>>
    ELSE <<SigmaPoor>>

SixSigma ==
    /\ pc = "sigma"
    /\ LET opportunities == PatientsObserved * OpportunitiesPerPatient
           dpmo == Dpmo(defects, opportunities)
           sigma == SigmaLevel(dpmo)
       IN  /\ ns' = Bind(Bind(Bind(ns, "opportunities", opportunities),
                              "dpmo", dpmo),
                         "sigma_level", sigma.value)
           /\ np_log10_calls' = np_log10_calls + sigma.log10_calls
           /\ page' = page \o
                << El("write", "---"),
                   El("subheader", "Six Sigma Performance Estimator"),
                   Metric("Defects per Million Opportunities (DPMO)", dpmo),
                   Metric("Estimated Sigma Level", sigma.value) >>
                \o SigmaElements(sigma.value)
                \o << El("write", "---"),
                      El("subheader", "Strategic Recommendations"),
                      El("markdown", "Implement continuous improvement programs ..."),
                      El("caption", "Analytics based purely on engineering and management principles - No datasets or ML used.") >>
    /\ pc' = "done"
    /\ UNCHANGED <<widgets, bar_updates, reruns, memo>>

---------------------------------------------------------------------------
(* A run of the script, and the session *)

\* Lines 6-17: page configuration, title, tabs and the sidebar header
PageTop ==
    << El("title", "Smart Healthcare Operations Optimizer"),
       El("markdown", "Real-Time Healthcare Systems Engineering Simulator + Advanced Analytics"),
       El("tabs", "Dashboard | Advanced Analytics"),
       El("sidebar.header", "Input Parameters") >>

NoMemo == [taken |-> FALSE]

\* The script starts at its first line in a fresh namespace with an empty page.
ScriptStart ==
    /\ ns = EmptyNs
    /\ page = PageTop
    /\ pc = "core"
    /\ np_log10_calls = 0
    /\ bar_updates = << >>

Init ==
    /\ num_doctors = NumDoctorsSlider.value
    /\ num_patients_per_hour = PatientsPerHourSlider.value
    /\ consult_time = ConsultTimeSlider.value
    /\ num_beds = NumBedsSlider.value
    /\ staff_shifts = StaffShiftsSlider.value
    /\ investment = InvestmentInput.value
    /\ annual_savings = AnnualSavingsInput.value
    /\ years = YearsSlider.value
    /\ defects = DefectsInput.value
    /\ ScriptStart
    /\ reruns = 0
    /\ memo = NoMemo

ScriptStep ==
    \/ CoreCalculations
    \/ Recommendations
    \/ DisplayKPIs
    \/ SimulationStart
    \/ SimulationStep
    \/ SimulationComplete
    \/ Insights
    \/ RoiCalculator
    \/ SixSigma

\* The number of input changes the model follows in one session
MaxReruns == 4

\* The values the model moves a widget between: its least and its default
Choices(w) == {w.min, w.value}

RerunKeepingNamespace ==
    /\ ns' = ns
    /\ page' = PageTop
    /\ pc' = "core"
    /\ np_log10_calls' = 0
    /\ bar_updates' = << >>
    /\ reruns' = reruns + 1

\* Streamlit runs the script again from the top: new namespace, new page.
Rerun ==
    /\ ns' = EmptyNs
    /\ page' = PageTop
    /\ pc' = "core"
    /\ np_log10_calls' = 0
    /\ bar_updates' = << >>
    /\ reruns' = reruns + 1

\* The user moves one widget to another of its values once the run has ended.
InputChange ==
    /\ pc \in {"done", "ZeroDivisionError"}
    /\ reruns < MaxReruns
    /\ \/ /\ \E v \in Choices(NumDoctorsSlider) \ {num_doctors} : num_doctors' = v
          /\ UNCHANGED <<num_patients_per_hour, consult_time, num_beds, staff_shifts,
                         investment, annual_savings, years, defects>>
       \/ /\ \E v \in Choices(PatientsPerHourSlider) \ {num_patients_per_hour} :
                num_patients_per_hour' = v
          /\ UNCHANGED <<num_doctors, consult_time, num_beds, staff_shifts,
                         investment, annual_savings, years, defects>>
       \/ /\ \E v \in Choices(ConsultTimeSlider) \ {consult_time} : consult_time' = v
          /\ UNCHANGED <<num_doctors, num_patients_per_hour, num_beds, staff_shifts,
                         investment, annual_savings, years, defects>>
       \/ /\ \E v \in Choices(NumBedsSlider) \ {num_beds} : num_beds' = v
          /\ UNCHANGED <<num_doctors, num_patients_per_hour, consult_time, staff_shifts,
                         investment, annual_savings, years, defects>>
       \/ /\ \E v \in Choices(StaffShiftsSlider) \ {staff_shifts} : staff_shifts' = v
          /\ UNCHANGED <<num_doctors, num_patients_per_hour, consult_time, num_beds,
                         investment, annual_savings, years, defects>>
       \/ /\ \E v \in Choices(InvestmentInput) \ {investment} : investment' = v
          /\ UNCHANGED <<num_doctors, num_patients_per_hour, consult_time, num_beds,
                         staff_shifts, annual_savings, years, defects>>
       \/ /\ \E v \in Choices(AnnualSavingsInput) \ {annual_savings} : annual_savings' = v
          /\ UNCHANGED <<num_doctors, num_patients_per_hour, consult_time, num_beds,
                         staff_shifts, investment, years, defects>>
       \/ /\ \E v \in Choices(YearsSlider) \ {years} : years' = v
          /\ UNCHANGED <<num_doctors, num_patients_per_hour, consult_time, num_beds,
                         staff_shifts, investment, annual_savings, defects>>
       \/ /\ \E v \in Choices(DefectsInput) \ {defects} : defects' = v
          /\ UNCHANGED <<num_doctors, num_patients_per_hour, consult_time, num_beds,
                         staff_shifts, investment, annual_savings, years>>
    /\ Rerun
    /\ UNCHANGED memo

Next == ScriptStep \/ InputChange

Spec == Init /\ [][Next]_vars

\* The script runs on its own thread and waits for nothing but time.sleep:
\* a simulation step that can be taken is taken.
FairSpec ==
    /\ Spec
    /\ WF_vars(SimulationStart)
    /\ WF_vars(SimulationStep)
    /\ WF_vars(SimulationComplete)

---------------------------------------------------------------------------
(* Two evaluations compared: memo keeps the inputs and the outputs of one
   finished run of the session, and which run it was. *)

Outputs == [ns |-> ns, page |-> page, np_log10_calls |-> np_log10_calls,
            bar_updates |-> bar_updates]

Snapshot ==
    /\ pc = "done"
    /\ ~memo.taken
    /\ memo' = [taken |-> TRUE, run |-> reruns, inputs |-> widgets,
                 outputs |-> Outputs]
    /\ UNCHANGED <<widgets, run, reruns>>

NextRerun == Next \/ Snapshot

SpecRerun == Init /\ [][NextRerun]_vars

---------------------------------------------------------------------------
(* The calculators over their input domains: the session starts from any
   setting of the widgets a calculator reads, the others at their defaults. *)

OthersAtDefault ==
    /\ ScriptStart
    /\ reruns = 0
    /\ memo = NoMemo

\* Tab 1: every (num_doctors, num_patients_per_hour, consult_time), and every
\* (num_patients_per_hour, num_beds)
InitOps ==
    /\ \/ /\ num_doctors \in Values(NumDoctorsSlider)
          /\ num_patients_per_hour \in Values(PatientsPerHourSlider)
          /\ consult_time \in Values(ConsultTimeSlider)
          /\ num_beds = NumBedsSlider.value
       \/ /\ num_doctors = NumDoctorsSlider.value
          /\ num_patients_per_hour \in Values(PatientsPerHourSlider)
          /\ consult_time = ConsultTimeSlider.value
          /\ num_beds \in Values(NumBedsSlider)
    /\ staff_shifts = StaffShiftsSlider.value
    /\ investment = InvestmentInput.value
    /\ annual_savings = AnnualSavingsInput.value
    /\ years = YearsSlider.value
    /\ defects = DefectsInput.value
    /\ OthersAtDefault

NextOps == CoreCalculations \/ Recommendations

SpecOps == InitOps /\ [][NextOps]_vars

\* The ROI calculator: the ends and the default of the two amounts and
\* NumInvestments (NumSavings) multiples of 100000 (50000), with every
\* number of years.
Ends(w) == {w.min, w.value, w.max}

NumInvestments == 10
NumSavings == 10

InvestmentSamples ==
    Ends(InvestmentInput) \cup {k * 100000 : k \in 1..NumInvestments}

SavingsSamples ==
    Ends(AnnualSavingsInput) \cup {k * 50000 : k \in 1..NumSavings}

InitFin ==
    /\ num_doctors = NumDoctorsSlider.value
    /\ num_patients_per_hour = PatientsPerHourSlider.value
    /\ consult_time = ConsultTimeSlider.value
    /\ num_beds = NumBedsSlider.value
    /\ staff_shifts = StaffShiftsSlider.value
    /\ investment \in {v \in InvestmentSamples : InRange(InvestmentInput, v)}
    /\ annual_savings \in {v \in SavingsSamples : InRange(AnnualSavingsInput, v)}
    /\ years \in Values(YearsSlider)
    /\ defects = DefectsInput.value
    /\ OthersAtDefault

SpecFin == InitFin /\ [][ScriptStep]_vars

\* The Six Sigma estimator: every number of defects
InitSigma ==
    /\ num_doctors = NumDoctorsSlider.value
    /\ num_patients_per_hour = PatientsPerHourSlider.value
    /\ consult_time = ConsultTimeSlider.value
    /\ num_beds = NumBedsSlider.value
    /\ staff_shifts = StaffShiftsSlider.value
    /\ investment = InvestmentInput.value
    /\ annual_savings = AnnualSavingsInput.value
    /\ years = YearsSlider.value
    /\ defects \in Values(DefectsInput)
    /\ OthersAtDefault

SpecSigma == InitSigma /\ [][ScriptStep]_vars

---------------------------------------------------------------------------
(* Properties of the operations calculator, checked under SpecOps *)

Computed == pc \in {"recommend", "kpi"}

\* C1: for every num_doctors in [1,20], num_patients_per_hour in [10,100],
\* consult_time in [5,30] and num_beds in [5,100], doctor_utilization and
\* bed_utilization are never below 0 and never above 100, and each is its
\* ratio (p/d * c / 60 * 100, p/b * 100) where that is below 100 and 100
\* otherwise.
C1_UtilizationWithinPercent ==
    Computed =>
        LET du == ns.doctor_utilization
            bu == ns.bed_utilization
            p == num_patients_per_hour
        IN  /\ Geq(du, 0) /\ Leq(du, 100)
            /\ Geq(bu, 0) /\ Leq(bu, 100)
            /\ IF p * consult_time * 100 < 100 * 60 * num_doctors
               THEN du.num * 60 * num_doctors = du.den * p * consult_time * 100
               ELSE du.num = 100 * du.den
            /\ IF p * 100 < 100 * num_beds
               THEN bu.num * num_beds = bu.den * p * 100
               ELSE bu = R(100)

\* Both caps act: 100 patients an hour on one doctor at 30 minutes each is
\* 5000 %, and on 20 beds 500 %.
C1_Witness ==
    /\ Computed
    /\ num_doctors = 1 /\ num_patients_per_hour = 100 /\ consult_time = 30
    /\ num_beds = 20
    /\ ns.doctor_utilization = R(100)
    /\ ns.bed_utilization = R(100)

\* C2: waiting_time is never negative: it is 0 whenever
\* patients_per_doctor * consult_time <= 60 (so for 5 doctors, 30 patients an
\* hour and 10 minutes) and patients_per_doctor * consult_time - 60 otherwise.
C2_WaitingTimeNonNegative ==
    Computed =>
        LET w == ns.waiting_time
            load == num_patients_per_hour * consult_time
        IN  /\ Geq(w, 0)
            /\ load <= 60 * num_doctors => w = R(0)
            /\ load > 60 * num_doctors =>
                   /\ Gt(w, 0)
                   /\ w.num * num_doctors = w.den * (load - 60 * num_doctors)
            /\ (num_doctors = 5 /\ num_patients_per_hour = 30 /\ consult_time = 10)
                   => /\ ns.patients_per_doctor = R(6)
                      /\ w = R(0)

\* The example of the specification, where the load is exactly 60.
C2_Witness ==
    /\ Computed
    /\ num_doctors = 5 /\ num_patients_per_hour = 30 /\ consult_time = 10
    /\ ns.patients_per_doctor = R(6)
    /\ ns.waiting_time = R(0)

\* C10: whenever waiting_time > 0 the doctor utilization is exactly 100 and
\* the doctor advisory is the overutilization warning; whenever the advisory is
\* "optimal" the utilization is at most 90 and the waiting time is 0; the
\* doctor advisory is the warning exactly when doctor_utilization > 90 and the
\* bed advisory is the overflow warning exactly when bed_utilization > 85.
C10_WaitingImpliesSaturation ==
    pc = "kpi" =>
        /\ Gt(ns.waiting_time, 0) =>
               /\ ns.doctor_utilization = R(100)
               /\ ns.doctor_msg = DoctorOver
        /\ ns.doctor_msg = DoctorOptimal =>
               /\ Leq(ns.doctor_utilization, 90)
               /\ ns.waiting_time = R(0)
        /\ ns.doctor_msg \in {DoctorOver, DoctorOptimal}
        /\ ns.doctor_msg = DoctorOver <=> Gt(ns.doctor_utilization, 90)
        /\ ns.bed_msg \in {BedOver, BedHealthy}
        /\ ns.bed_msg = BedOver <=> Gt(ns.bed_utilization, 85)

\* A positive waiting time with the warning, beside healthy beds.
C10_Witness ==
    /\ pc = "kpi"
    /\ Gt(ns.waiting_time, 0)
    /\ ns.doctor_utilization = R(100)
    /\ ns.doctor_msg = DoctorOver
    /\ ns.bed_msg = BedHealthy

---------------------------------------------------------------------------
(* Properties of the ROI calculator, checked under SpecFin *)

IsRoiElement(e) == e \in {RoiExcellent, RoiModerate, RoiNegative}

Shows(e) == \E k \in DOMAIN page : page[k] = e

\* C5: exactly one ROI classification is shown for every investment,
\* annual_savings and years: excellent when roi > 50, moderate when
\* 0 < roi <= 50, negative when roi <= 0, where roi is
\* (annual_savings * years - investment) / investment * 100; 500000, 100000
\* and 3 years give roi = -40 and negative, roi = 50 is moderate and roi = 0
\* is negative.
C5_RoiThreeWayPartition ==
    pc \in {"sigma", "done"} =>
        LET gain == annual_savings * years - investment
        IN  /\ Len(SelectSeq(page, IsRoiElement)) = 1
            /\ Shows(RoiExcellent) <=> 2 * gain > investment
            /\ Shows(RoiModerate) <=> (gain > 0 /\ 2 * gain <= investment)
            /\ Shows(RoiNegative) <=> gain <= 0
            /\ Gt(ns.roi, 50) <=> 2 * gain > investment
            /\ Gt(ns.roi, 0) <=> gain > 0
            /\ ns.roi = R(50) <=> 2 * gain = investment
            /\ ns.roi = R(0) <=> gain = 0
            /\ (investment = 500000 /\ annual_savings = 100000 /\ years = 3)
                   => ns.roi = R(-40) /\ Shows(RoiNegative)

\* roi is exactly 50 and the moderate classification is shown.
C5_Witness ==
    /\ pc = "done"
    /\ ns.roi = R(50)
    /\ Shows(RoiModerate)
    /\ ~Shows(RoiExcellent)

---------------------------------------------------------------------------
(* Properties of the Six Sigma estimator, checked under SpecSigma *)

IsSigmaElement(e) == e \in {SigmaWorldClass, SigmaGood, SigmaModerate, SigmaPoor}

\* C6: with defects = 0, dpmo is 0, sigma_level is exactly 6 and np.log10 is
\* not called; np.log10 is called (once) only when dpmo > 0.
C6_ZeroDefectsSigmaSix ==
    /\ pc # "done" => np_log10_calls = 0
    /\ pc = "done" =>
           /\ defects = 0 => /\ ns.dpmo = R(0)
                             /\ ns.sigma_level = R(6)
                             /\ np_log10_calls = 0
           /\ np_log10_calls = (IF Gt(ns.dpmo, 0) THEN 1 ELSE 0)
           /\ Gt(ns.dpmo, 0) <=> defects > 0

C6_Witness ==
    /\ pc = "done"
    /\ defects = 0
    /\ ns.dpmo = R(0)
    /\ ns.sigma_level = R(6)
    /\ np_log10_calls = 0

\* C7: for every defects in [0,1000], dpmo = defects / 10000 * 1000000 and
\* exactly one band is shown, chosen by sigma_level = 6 - log10(dpmo / 3.4):
\* world-class when sigma_level >= 5 (dpmo <= 34), good when
\* 4 <= sigma_level < 5 (34 < dpmo <= 340), moderate when 3 <= sigma_level < 4
\* (340 < dpmo <= 3400), poor when sigma_level < 3; defects = 50 gives
\* dpmo = 5000, sigma_level = 6 - log10(1470.59) = 2.83 (the argument lies
\* between 1462.2 > 10^3.165 and 1496.2 < 10^3.175) and the poor band.
C7_SigmaBands ==
    pc = "done" =>
        LET s == ns.sigma_level
        IN  /\ ns.dpmo = R(defects * 100)
            /\ Len(SelectSeq(page, IsSigmaElement)) = 1
            /\ Shows(SigmaWorldClass) <=> SigmaGeq(s, 5)
            /\ Shows(SigmaGood) <=> (SigmaGeq(s, 4) /\ ~SigmaGeq(s, 5))
            /\ Shows(SigmaModerate) <=> (SigmaGeq(s, 3) /\ ~SigmaGeq(s, 4))
            /\ Shows(SigmaPoor) <=> ~SigmaGeq(s, 3)
            /\ SigmaGeq(s, 5) <=> defects * 100 * 10 <= 34 * 10
            /\ SigmaGeq(s, 4) <=> defects * 100 * 10 <= 34 * 100
            /\ SigmaGeq(s, 3) <=> defects * 100 * 10 <= 34 * 1000
            /\ defects = 50 =>
                   /\ ns.dpmo = R(5000)
                   /\ s.six_minus_log10.num * 10 > 14622 * s.six_minus_log10.den
                   /\ s.six_minus_log10.num * 10 < 14962 * s.six_minus_log10.den
                   /\ Shows(SigmaPoor)

\* The example of the specification: 50 defects, the poor band.
C7_Witness ==
    /\ pc = "done"
    /\ defects = 50
    /\ ns.dpmo = R(5000)
    /\ ns.sigma_level = [six_minus_log10 |-> [num |-> 25000, den |-> 17, ulp |-> 0]]
    /\ Shows(SigmaPoor)

---------------------------------------------------------------------------
(* Properties of the whole script and of the session *)

WidgetsInRange ==
    /\ InRange(NumDoctorsSlider, num_doctors)
    /\ InRange(PatientsPerHourSlider, num_patients_per_hour)
    /\ InRange(ConsultTimeSlider, consult_time)
    /\ InRange(NumBedsSlider, num_beds)
    /\ InRange(StaffShiftsSlider, staff_shifts)
    /\ InRange(InvestmentInput, investment)
    /\ InRange(AnnualSavingsInput, annual_savings)
    /\ InRange(YearsSlider, years)
    /\ InRange(DefectsInput, defects)

\* C4: no evaluation divides by zero: the widgets' ranges keep
\* num_doctors >= 1 and num_beds >= 1 when patients_per_doctor and
\* bed_utilization are computed and investment > 0 when roi is computed, no run
\* ends in ZeroDivisionError, and np.log10(dpmo / 3.4) is not evaluated when
\* dpmo = 0.
C4_NoDivisionByZero ==
    /\ WidgetsInRange
    /\ pc # "ZeroDivisionError"
    /\ pc = "core" => num_doctors >= 1 /\ num_beds >= 1
    /\ pc = "roi" => investment > 0
    /\ pc = "sigma" => PatientsObserved * OpportunitiesPerPatient > 0
    /\ np_log10_calls > 0 => defects > 0 /\ Gt(ns.dpmo, 0)
    /\ (pc = "done" /\ defects = 0) => ns.dpmo = R(0) /\ np_log10_calls = 0

\* A run that ended with the least number of doctors, the least investment
\* and no defects.
C4_Witness ==
    /\ pc = "done"
    /\ num_doctors = 1
    /\ ns.patients_per_doctor = R(num_patients_per_hour)
    /\ investment = 10000
    /\ "roi" \in DOMAIN ns
    /\ defects = 0
    /\ np_log10_calls = 0

\* C8: a finished run whose inputs are those of an earlier finished run of the
\* session has the same outputs (namespace, page, progress updates), whatever
\* ran in between, and every run starts with nothing of the run before it.
C8_OutputsDependOnInputsOnly ==
    /\ (pc = "done" /\ memo.taken /\ memo.inputs = widgets)
           => memo.outputs = Outputs
    /\ pc = "core" => ScriptStart

\* A later run with the inputs of the remembered one.
C8_Witness ==
    /\ pc = "done"
    /\ memo.taken
    /\ memo.run + 2 <= reruns
    /\ memo.inputs = widgets
    /\ memo.outputs = Outputs

SimulationCompleteShown == Shows(El("success", "Simulation Complete"))

\* What the script computed before the simulation
Metrics ==
    [k \in DOMAIN ns \ {"progress_text", "my_bar", "percent_complete"} |-> ns[k]]

C9_LoopState ==
    /\ Len(bar_updates) <= 100
    /\ \A k \in DOMAIN bar_updates : bar_updates[k] = k
    /\ pc = "loop" => ns.my_bar.value = Len(bar_updates)
    /\ SimulationCompleteShown =>
           /\ ns.my_bar.value = 100
           /\ Len(bar_updates) = 100
    /\ pc \in {"roi", "sigma", "done"} =>
           /\ Shows(El("write", ns.doctor_msg))
           /\ Shows(El("write", ns.bed_msg))
           /\ ns.doctor_msg = DoctorMsg(ns.doctor_utilization)
           /\ ns.bed_msg = BedMsg(ns.bed_utilization)

C9_LoopStep ==
    pc \in {"simulation", "loop"} =>
        /\ Metrics' = Metrics
        /\ widgets' = widgets
        /\ (pc = "loop" /\ pc' = "loop") =>
               /\ ns'.my_bar.value = ns.my_bar.value + 1
               /\ Len(bar_updates') = Len(bar_updates) + 1

\* C9: in every run the simulation loop makes exactly 100 progress updates,
\* 1, 2, ..., 100, whatever the inputs; it ends, and "Simulation Complete" is
\* shown only once the bar is at 100; it changes none of the metrics and
\* advisory messages computed before it and shown after it.
C9_SimulationLoop ==
    /\ []C9_LoopState
    /\ [][C9_LoopStep]_vars
    /\ (pc = "simulation") ~> SimulationCompleteShown

\* A run with other inputs than the defaults has finished its loop.
C9_Witness ==
    /\ SimulationCompleteShown
    /\ pc = "insights"
    /\ ns.my_bar.value = 100
    /\ bar_updates[100] = 100
    /\ consult_time = 5

===========================================================================
